---------------------------- MODULE Spec2Model ----------------------------
(***************************************************************************)
(* Project Tracker Pro (src/main.py): a Streamlit script that is re-run    *)
(* from top to bottom on every interaction of a browser session.  All      *)
(* sessions share one spreadsheet file; every run loads it, shows a        *)
(* filtered view, and on a form submit mutates its own copy, saves it and  *)
(* pushes the file to a remote repository.                                 *)
(*                                                                         *)
(* Text is modelled as a sequence of one-character strings, so that        *)
(* lower-casing, trimming, splitting and searching are computed as the     *)
(* code computes them.  A DataFrame is a sequence of [idx, row] pairs: the *)
(* index label of a line is data, as in pandas.                            *)
(***************************************************************************)
EXTENDS Integers, Sequences, FiniteSets, TLC

VARIABLES
    session_state,  \* per session: st.session_state (auth_user, auth_role)
    file,           \* projects.xlsx, shared by all sessions
    secrets,        \* the GitHub keys present in st.secrets
    last,           \* the last whole script run: what it was and what it did
    pc, df, missed, \* per session, for runs taken step by step: position,
                    \* the run's DataFrame, and how many saves by other
                    \* sessions the file has had since this run loaded it
                    \* (0, 1, or 2 for two and more)
    finput, filtered, ics   \* the sidebar filters, the filtered view, the exports

vars == <<session_state, file, secrets, last, pc, df, missed, finput, filtered, ics>>

\* Bounds of the model: the largest number of rows a table is grown to, in
\* whole runs and in runs taken step by step.
MaxRows == 3
RaceRows == 1

\* The browser sessions that run the script concurrently.
Sessions == {1, 2}

-----------------------------------------------------------------------------
(* Python text operations *)

UpperCase == <<"A","B","C","D","E","F","G","H","I","J","K","L","M",
               "N","O","P","Q","R","S","T","U","V","W","X","Y","Z">>
LowerCase == <<"a","b","c","d","e","f","g","h","i","j","k","l","m",
               "n","o","p","q","r","s","t","u","v","w","x","y","z">>

Whitespace == {" "}

\* str.lower() on one character
LowerChar(c) ==
    IF \E i \in 1..26 : UpperCase[i] = c
    THEN LowerCase[CHOOSE i \in 1..26 : UpperCase[i] = c]
    ELSE c

\* str.lower()
StrLower(s) == [i \in 1..Len(s) |-> LowerChar(s[i])]

RECURSIVE LStrip(_)
LStrip(s) ==
    IF s = <<>> THEN <<>>
    ELSE IF Head(s) \in Whitespace THEN LStrip(Tail(s)) ELSE s

RECURSIVE RStrip(_)
RStrip(s) ==
    IF s = <<>> THEN <<>>
    ELSE IF s[Len(s)] \in Whitespace THEN RStrip(SubSeq(s, 1, Len(s) - 1)) ELSE s

\* str.strip()
Strip(s) == RStrip(LStrip(s))

RECURSIVE SplitFrom(_, _)
SplitFrom(s, cur) ==
    IF s = <<>> THEN <<cur>>
    ELSE IF Head(s) = "," THEN <<cur>> \o SplitFrom(Tail(s), <<>>)
    ELSE SplitFrom(Tail(s), Append(cur, Head(s)))

\* str.split(",")
SplitComma(s) == SplitFrom(s, <<>>)

\* A missing cell as pandas reads it back (float NaN); no text equals it.
NaN == <<"<NaN>">>

\* str(x) of a cell: str(float('nan')) is "nan", text is itself
PyStr(x) == IF x = NaN THEN <<"n","a","n">> ELSE x

\* x or "": only the empty string is falsy; NaN is a truthy float
PyOrEmpty(x) == IF x = <<>> THEN <<>> ELSE x

-----------------------------------------------------------------------------
(* Accounts and sessions *)

Admin == <<"a","d","m","i","n">>
Bo    == <<"B","o">>
Nan   == <<"n","a","n">>

\* The account mapping (st.secrets["users"], else the built-in fallback):
\* username -> password, role.  Passwords are text too.
USERS ==
    (Admin :> [password |-> <<"S","e","c">>, role |-> "admin"])
    @@ (Bo :> [password |-> <<"p","w">>, role |-> "viewer"])
    @@ (Nan :> [password |-> <<>>, role |-> "viewer"])

\* What is typed into the login form.
TypedUsernames == {Admin, Bo, Nan, <<"b","o">>, <<"A","d","m","i","n">>}
TypedPasswords == {<<"S","e","c">>, <<"s","e","c">>, <<"p","w">>, <<>>}

\* st.session_state without the auth keys.
NoSession == [has_auth_user |-> FALSE, auth_user |-> <<>>, auth_role |-> "none"]

\* The same asking only for a signed-in session.
is_admin_for_any_user(s) == session_state[s].has_auth_user

is_admin(s) == session_state[s].auth_role = "admin"

current_user(s) ==
    IF session_state[s].has_auth_user THEN session_state[s].auth_user ELSE <<>>


\* The same comparing passwords without regard to case.
login_ok_ignoring_case(username, password) ==
    username \in DOMAIN USERS
    /\ StrLower(USERS[username].password) = StrLower(password)

\* login_ui with the "Sign in" button pressed: the typed username must be a
\* key of USERS and the typed password equal the stored one.
login_ok(username, password) ==
    username \in DOMAIN USERS /\ USERS[username].password = password

-----------------------------------------------------------------------------
(* The table: rows, the spreadsheet file, the DataFrame *)

Date(y, m, d) == [y |-> y, m |-> m, d |-> d]

\* What is typed into the add form and the edit form (before .strip()).
Form1 == [Year |-> 2024, Code |-> <<"A","x">>, Name |-> <<" ","a","a">>,
          Location |-> <<"N","Y","C">>,
          Start |-> Date(2024, 1, 10), End |-> Date(2024, 1, 12),
          Team |-> <<" ">>]
Form2 == [Year |-> 2025, Code |-> <<"B">>, Name |-> <<"b">>,
          Location |-> <<"K","L"," ">>,
          Start |-> Date(2025, 12, 30), End |-> Date(2025, 12, 31),
          Team |-> <<" ","A","l"," ",",","B","O"," ">>]
Form3 == [Year |-> 2024, Code |-> <<"C">>, Name |-> <<"c">>,
          Location |-> <<"N","Y","C">>,
          Start |-> Date(2024, 2, 28), End |-> Date(2024, 3, 1),
          Team |-> <<"B","o","b",",",","," ","N","a","n">>]
Forms == {Form1, Form2, Form3}
\* The forms submitted in the runs that are taken step by step.
RaceForms == {Form1, Form2}

\* The row built from a submitted form: text fields stripped, Year an int.
new_row(form) ==
    [Year |-> form.Year, Code |-> Strip(form.Code), Name |-> Strip(form.Name),
     Location |-> Strip(form.Location), Start |-> form.Start, End |-> form.End,
     Team |-> Strip(form.Team)]

\* pandas.read_excel: an empty cell comes back as NaN
ReadCell(x) == IF x = <<>> THEN NaN ELSE x
\* DataFrame.to_excel: NaN is written as an empty cell
WriteCell(x) == IF x = NaN THEN <<>> ELSE x

ReadRow(r) ==
    [Year |-> r.Year, Code |-> ReadCell(r.Code), Name |-> ReadCell(r.Name),
     Location |-> ReadCell(r.Location), Start |-> r.Start, End |-> r.End,
     Team |-> ReadCell(r.Team)]
WriteRow(r) ==
    [Year |-> r.Year, Code |-> WriteCell(r.Code), Name |-> WriteCell(r.Name),
     Location |-> WriteCell(r.Location), Start |-> r.Start, End |-> r.End,
     Team |-> WriteCell(r.Team)]

\* projects.xlsx before the first run
NoFile == [exists |-> FALSE, rows |-> <<>>]

\* ensure_excel: an absent file is created with the empty schema
ensure_excel(f) == IF f.exists THEN f ELSE [exists |-> TRUE, rows |-> <<>>]

\* load_data: the rows in file order under the index labels 0..N-1
load_data(f) ==
    [i \in 1..Len(ensure_excel(f).rows) |->
        [idx |-> i - 1, row |-> ReadRow(ensure_excel(f).rows[i])]]

\* save_data: to_excel(index=False) overwrites the file with the rows, labels dropped
save_data(frame) ==
    [exists |-> TRUE, rows |-> [i \in 1..Len(frame) |-> WriteRow(frame[i].row)]]

\* The index labels of a frame, in order.
Labels(frame) == [i \in 1..Len(frame) |-> frame[i].idx]
LabelSet(frame) == {frame[i].idx : i \in 1..Len(frame)}
\* The rows of a frame, in order.
Rows(frame) == [i \in 1..Len(frame) |-> frame[i].row]

\* df.loc[label]
loc(frame, label) == frame[CHOOSE i \in 1..Len(frame) : frame[i].idx = label].row

\* DataFrame.reset_index(drop=True)
reset_index(frame) == [i \in 1..Len(frame) |-> [idx |-> i - 1, row |-> frame[i].row]]

\* DataFrame.drop(index=label)
drop(frame, label) == SelectSeq(frame, LAMBDA l : l.idx # label)

\* pd.concat([df, DataFrame([new_row])], ignore_index=True)
concat(frame, r) == reset_index(Append(frame, [idx |-> 0, row |-> r]))

\* do_update: the seven assignments df.loc[row_idx, column] = value
set_row(frame, label, r) ==
    [i \in 1..Len(frame) |->
        IF frame[i].idx = label THEN [idx |-> label, row |-> r] ELSE frame[i]]

\* do_delete: df.drop(index=row_idx).reset_index(drop=True)
\* The same without reset_index(drop=True): the survivors keep their labels.
delete_row_keeping_labels(frame, label) == drop(frame, label)

delete_row(frame, label) == reset_index(drop(frame, label))

-----------------------------------------------------------------------------
(* Authorization of edit and delete *)

\* [u.strip().lower() for u in row_team.split(",") if u.strip()]
team_tokens(text) ==
    LET parts == SplitComma(text)
        kept  == SelectSeq(parts, LAMBDA u : Strip(u) # <<>>)
    IN  {StrLower(Strip(kept[i])) : i \in 1..Len(kept)}

\* row_team = str(df.loc[row_idx, "Project Team"] or "").lower()
row_team(cell) == StrLower(PyStr(PyOrEmpty(cell)))

\* can_edit = is_admin() or (user and user in [...])
can_edit(s, cell) ==
    LET user == StrLower(current_user(s))
    IN  is_admin(s) \/ (user # <<>> /\ user \in team_tokens(row_team(cell)))

-----------------------------------------------------------------------------
(* Remote sync *)

SecretKeys == {"GITHUB_TOKEN", "GITHUB_REPO"}

\* The same looking at the token only.
can_commit_with_token_only == "GITHUB_TOKEN" \in secrets

\* can_commit_to_github: both secrets are configured
can_commit_to_github == "GITHUB_TOKEN" \in secrets /\ "GITHUB_REPO" \in secrets

\* What the network and the file system do during one commit: whether
\* get_repo, open(EXCEL_FILE), get_contents, update_file, create_file succeed.
\* A call that is never reached is listed as succeeding, so that each path
\* through the function is taken by exactly one environment.
Environments ==
    {e \in [get_repo : BOOLEAN, open : BOOLEAN, get_contents : BOOLEAN,
            update_file : BOOLEAN, create_file : BOOLEAN] :
        /\ ~e.get_repo => e.open /\ e.get_contents /\ e.update_file /\ e.create_file
        /\ ~e.open => e.get_contents /\ e.update_file /\ e.create_file
        /\ ~e.get_contents => e.update_file
        /\ (e.get_contents /\ e.update_file) => e.create_file}

NotPushed == [done |-> FALSE, rows |-> <<>>]
Pushed(f) == [done |-> TRUE, rows |-> f.rows]

NoSync == [calls |-> <<>>, shown |-> "none", raised |-> FALSE, pushed |-> NotPushed]

\* The same without the outer except: a failing call outside the inner try
\* leaves the function as an exception.
commit_excel_unguarded(f, env) ==
    IF ~can_commit_to_github
    THEN [calls |-> <<>>, shown |-> "info_skipped", raised |-> FALSE,
          pushed |-> NotPushed]
    ELSE IF ~env.get_repo \/ ~env.open
    THEN [calls |-> <<"get_repo">>, shown |-> "none", raised |-> TRUE,
          pushed |-> NotPushed]
    ELSE IF env.get_contents /\ env.update_file
    THEN [calls |-> <<"get_repo", "get_contents", "update_file">>,
          shown |-> "success", raised |-> FALSE, pushed |-> Pushed(f)]
    ELSE LET tried == IF env.get_contents
                      THEN <<"get_repo", "get_contents", "update_file", "create_file">>
                      ELSE <<"get_repo", "get_contents", "create_file">>
         IN  IF env.create_file
             THEN [calls |-> tried, shown |-> "success", raised |-> FALSE,
                   pushed |-> Pushed(f)]
             ELSE [calls |-> tried, shown |-> "none", raised |-> TRUE,
                   pushed |-> NotPushed]

\* commit_excel_to_github with the file as it is when the function runs: the
\* remote calls made, the content pushed, the message shown, and whether an
\* exception leaves the function.
commit_excel_to_github(f, env) ==
    IF ~can_commit_to_github
    THEN [calls |-> <<>>, shown |-> "info_skipped", raised |-> FALSE,
          pushed |-> NotPushed]
    ELSE IF ~env.get_repo
    THEN [calls |-> <<"get_repo">>, shown |-> "error", raised |-> FALSE,
          pushed |-> NotPushed]
    ELSE IF ~env.open
    THEN [calls |-> <<"get_repo">>, shown |-> "error", raised |-> FALSE,
          pushed |-> NotPushed]
    ELSE IF env.get_contents /\ env.update_file
    THEN [calls |-> <<"get_repo", "get_contents", "update_file">>,
          shown |-> "success", raised |-> FALSE, pushed |-> Pushed(f)]
    ELSE LET tried == IF env.get_contents
                      THEN <<"get_repo", "get_contents", "update_file", "create_file">>
                      ELSE <<"get_repo", "get_contents", "create_file">>
         IN  IF env.create_file
             THEN [calls |-> tried, shown |-> "success", raised |-> FALSE,
                   pushed |-> Pushed(f)]
             ELSE [calls |-> tried, shown |-> "error", raised |-> FALSE,
                   pushed |-> NotPushed]

\* Every way one call of commit_excel_to_github can end, over all
\* environments.
SyncResults(f) == {commit_excel_to_github(f, env) : env \in Environments}

-----------------------------------------------------------------------------
(* The sections of the script *)

\* Auth gate without a session: login_ui with "Sign in" pressed.
login_ui(s, username, password) ==
    /\ ~session_state[s].has_auth_user
    /\ session_state' =
          IF login_ok(username, password)
          THEN [session_state EXCEPT ![s] =
                   [has_auth_user |-> TRUE, auth_user |-> username,
                    auth_role |-> USERS[username].role]]
          ELSE session_state

\* Auth gate with a session: "Sign out" pressed, st.session_state.clear().
sign_out(s) ==
    /\ session_state[s].has_auth_user
    /\ session_state' = [session_state EXCEPT ![s] = NoSession]

\* "Add New Project", form submitted: the DataFrame after line 290.
add_project_form(frame, form) == concat(frame, new_row(form))

\* "Edit / Delete Project", a button of the edit form pressed: the DataFrame
\* after do_update or do_delete.
edit_form(frame, row_idx, form, button) ==
    IF button = "update"
    THEN set_row(frame, row_idx, new_row(form))
    ELSE delete_row(frame, row_idx)

Buttons == {"update", "delete"}

\* What st.number_input lets through as row_idx: 0..len(df)-1.
RowChoices(frame) == 0..(Len(frame) - 1)

-----------------------------------------------------------------------------
(* Whole runs: every interaction runs the script from top to bottom *)

\* The sentinel option of both select boxes.
All == <<"A","l","l">>
YearAll == [all |-> TRUE, year |-> 0]
YearIs(y) == [all |-> FALSE, year |-> y]

NoFilter == [applied |-> FALSE, year |-> YearAll, location |-> All, query |-> <<>>]
NoIcs == [made |-> FALSE, sel |-> 0, single |-> <<>>, bulk |-> <<>>]

NoLast ==
    [s |-> 0, kind |-> "none", username |-> <<>>, password |-> <<>>,
     row_idx |-> 0, before |-> <<>>, after |-> <<>>, saved |-> FALSE,
     sync |-> NoSync,
     completed |-> TRUE]

Init ==
    /\ session_state = [s \in Sessions |-> NoSession]
    /\ file = NoFile
    /\ secrets \in SUBSET SecretKeys
    /\ last = NoLast
    /\ pc = [s \in Sessions |-> "idle"]
    /\ df = [s \in Sessions |-> <<>>]
    /\ missed = [s \in Sessions |-> 0]
    /\ finput = NoFilter
    /\ filtered = <<>>
    /\ ics = NoIcs

SignIn(s, username, password) ==
    /\ login_ui(s, username, password)
    /\ last' = [NoLast EXCEPT !.s = s, !.kind = "login"]
    /\ UNCHANGED <<file, secrets, pc, df, missed, finput, filtered, ics>>

SignOut(s) ==
    /\ sign_out(s)
    /\ last' = [NoLast EXCEPT !.s = s, !.kind = "logout"]
    /\ UNCHANGED <<file, secrets, pc, df, missed, finput, filtered, ics>>

\* A run in which no form is submitted: load_data, render, end of script.
RunView(s) ==
    /\ session_state[s].has_auth_user
    /\ file' = ensure_excel(file)
    /\ last' = [NoLast EXCEPT !.s = s, !.kind = "view",
                              !.before = load_data(file), !.after = load_data(file)]
    /\ UNCHANGED <<session_state, secrets, pc, df, missed, finput, filtered, ics>>

\* A run with the add form submitted (the form exists under is_admin() only):
\* load_data, concat, save_data, commit_excel_to_github, st.success, rerun.
RunAdd(s, form) ==
    /\ session_state[s].has_auth_user
    /\ is_admin(s)
    /\ LET loaded == load_data(file)
           after  == add_project_form(loaded, form)
           saved  == save_data(after)
       IN  /\ Len(loaded) < MaxRows
           /\ file' = saved
           /\ \E result \in SyncResults(saved) :
                 last' = [NoLast EXCEPT !.s = s, !.kind = "add",
                             !.row_idx = Len(after) - 1,
                             !.before = loaded, !.after = after,
                             !.saved = TRUE, !.sync = result,
                             !.completed = ~result.raised]
    /\ UNCHANGED <<session_state, secrets, pc, df, missed, finput, filtered, ics>>

\* A run with a row selected and a button of the edit form pressed: load_data,
\* can_edit, then either the warning or do_update / do_delete, save_data,
\* commit_excel_to_github, st.success, rerun.
RunEdit(s, row_idx, form, button) ==
    /\ session_state[s].has_auth_user
    /\ LET loaded == load_data(file)
           after  == edit_form(loaded, row_idx, form, button)
           saved  == save_data(after)
       IN  /\ row_idx \in RowChoices(loaded)
           /\ IF ~can_edit(s, loc(loaded, row_idx).Team)
              THEN /\ file' = ensure_excel(file)
                   /\ last' = [NoLast EXCEPT !.s = s, !.kind = "edit_denied",
                                  !.row_idx = row_idx,
                                  !.before = loaded, !.after = loaded]
              ELSE /\ file' = saved
                   /\ \E result \in SyncResults(saved) :
                         last' = [NoLast EXCEPT !.s = s, !.kind = button,
                                     !.row_idx = row_idx,
                                     !.before = loaded, !.after = after,
                                     !.saved = TRUE, !.sync = result,
                                     !.completed = ~result.raised]
    /\ UNCHANGED <<session_state, secrets, pc, df, missed, finput, filtered, ics>>

\* Whole runs meet only in the file, so they are taken one after the other
\* from a single browser session that signs in as each account in turn.
Next ==
    \E s \in {CHOOSE first \in Sessions : \A t \in Sessions : first <= t} :
        \/ \E u \in DOMAIN USERS : SignIn(s, u, USERS[u].password)
        \/ SignIn(s, Bo, <<>>)
        \/ SignOut(s)
        \/ RunView(s)
        \/ \E form \in Forms : RunAdd(s, form)
        \/ \E i \in 0..MaxRows, form \in Forms : RunEdit(s, i, form, "update")
        \/ \E i \in 0..MaxRows : RunEdit(s, i, Form1, "delete")

Spec == Init /\ [][Next]_vars

-----------------------------------------------------------------------------
(* Sign-in attempts with what was typed kept *)

TypedSignIn(s, username, password) ==
    /\ login_ui(s, username, password)
    /\ last' = [NoLast EXCEPT !.s = s, !.kind = "login",
                              !.username = username, !.password = password]
    /\ UNCHANGED <<file, secrets, pc, df, missed, finput, filtered, ics>>

NextAuth ==
    \E s \in Sessions :
        \/ \E u \in TypedUsernames, p \in TypedPasswords : TypedSignIn(s, u, p)
        \/ SignOut(s)

SpecAuth == Init /\ [][NextAuth]_vars

-----------------------------------------------------------------------------
(* Runs taken step by step.  Streamlit runs each session's script in a      *)
(* thread of its own, so the runs of two sessions interleave; a run touches *)
(* the shared file at load_data and again at save_data and at the commit.  *)

RaceSignIn(s, username, password) ==
    /\ pc[s] = "idle"
    /\ login_ui(s, username, password)
    /\ UNCHANGED <<file, secrets, last, pc, df, missed, finput, filtered, ics>>

RaceSignOut(s) ==
    /\ pc[s] = "idle"
    /\ sign_out(s)
    /\ UNCHANGED <<file, secrets, last, pc, df, missed, finput, filtered, ics>>

\* The run passes the auth gate: df = load_data().
Load(s) ==
    /\ pc[s] = "idle"
    /\ session_state[s].has_auth_user
    /\ file' = ensure_excel(file)
    /\ df' = [df EXCEPT ![s] = load_data(file)]
    /\ pc' = [pc EXCEPT ![s] = "loaded"]
    /\ missed' = [missed EXCEPT ![s] = 0]
    /\ UNCHANGED <<session_state, secrets, last, finput, filtered, ics>>

\* The end of the script, or st.experimental_rerun().
EndRun(s) ==
    /\ pc' = [pc EXCEPT ![s] = "idle"]
    /\ df' = [df EXCEPT ![s] = <<>>]
    /\ missed' = [missed EXCEPT ![s] = 0]

\* "Add New Project" with the add form submitted, up to line 290.
AddSubmit(s, form) ==
    /\ pc[s] = "loaded"
    /\ is_admin(s)
    /\ Len(df[s]) < RaceRows
    /\ df' = [df EXCEPT ![s] = add_project_form(df[s], form)]
    /\ pc' = [pc EXCEPT ![s] = "mutated"]
    /\ UNCHANGED <<session_state, file, secrets, last, missed, finput, filtered, ics>>

\* "Add New Project" otherwise: the form is not submitted, or, without
\* is_admin(), there is no form and st.info is shown.
AddPass(s) ==
    /\ pc[s] = "loaded"
    /\ pc' = [pc EXCEPT ![s] = "edit"]
    /\ UNCHANGED <<session_state, file, secrets, last, df, missed, finput, filtered, ics>>

\* "Edit / Delete Project" with a row selected and a button pressed, up to
\* line 339 or 346; without can_edit the warning is shown and the run ends.
EditSubmit(s, row_idx, form, button) ==
    /\ pc[s] = "edit"
    /\ row_idx \in RowChoices(df[s])
    /\ IF can_edit(s, loc(df[s], row_idx).Team)
       THEN /\ df' = [df EXCEPT ![s] = edit_form(df[s], row_idx, form, button)]
            /\ pc' = [pc EXCEPT ![s] = "mutated"]
            /\ UNCHANGED missed
       ELSE EndRun(s)
    /\ UNCHANGED <<session_state, file, secrets, last, finput, filtered, ics>>

\* "Edit / Delete Project" with no button pressed or an empty table.
EditPass(s) ==
    /\ pc[s] = "edit"
    /\ EndRun(s)
    /\ UNCHANGED <<session_state, file, secrets, last, finput, filtered, ics>>

\* The same with a version check: a run that missed a save does not write.
SaveIfFresh(s) ==
    /\ pc[s] = "mutated"
    /\ missed[s] = 0
    /\ file' = save_data(df[s])
    /\ pc' = [pc EXCEPT ![s] = "saved"]
    /\ missed' = [t \in Sessions |->
                    IF t # s /\ pc[t] \in {"loaded", "edit", "mutated"}
                    THEN (IF missed[t] = 0 THEN 1 ELSE 2)
                    ELSE missed[t]]
    /\ UNCHANGED <<session_state, secrets, last, df, finput, filtered, ics>>

\* save_data(df): the file is overwritten, whatever it holds by now.
Save(s) ==
    /\ pc[s] = "mutated"
    /\ file' = save_data(df[s])
    /\ pc' = [pc EXCEPT ![s] = "saved"]
    /\ missed' = [t \in Sessions |->
                    IF t # s /\ pc[t] \in {"loaded", "edit", "mutated"}
                    THEN (IF missed[t] = 0 THEN 1 ELSE 2)
                    ELSE missed[t]]
    /\ UNCHANGED <<session_state, secrets, last, df, finput, filtered, ics>>

\* commit_excel_to_github of the file as it is by now, st.success, rerun.
Sync(s) ==
    /\ pc[s] = "saved"
    /\ \E result \in SyncResults(file) :
          IF result.raised
          THEN /\ pc' = [pc EXCEPT ![s] = "crashed"]
               /\ UNCHANGED <<df, missed>>
          ELSE EndRun(s)
    /\ UNCHANGED <<session_state, file, secrets, last, finput, filtered, ics>>

NextRace ==
    \E s \in Sessions :
        \/ \E u \in DOMAIN USERS : RaceSignIn(s, u, USERS[u].password)
        \/ RaceSignOut(s)
        \/ Load(s)
        \/ \E form \in RaceForms : AddSubmit(s, form)
        \/ AddPass(s)
        \/ \E i \in 0..RaceRows, form \in RaceForms : EditSubmit(s, i, form, "update")
        \/ \E i \in 0..RaceRows : EditSubmit(s, i, Form1, "delete")
        \/ EditPass(s)
        \/ Save(s)
        \/ Sync(s)

SpecRace == Init /\ [][NextRace]_vars

-----------------------------------------------------------------------------
(* The filtered view *)

\* Series.fillna("")
fillna(x) == IF x = NaN THEN <<>> ELSE x

\* Series.str.contains(q): re.search of the pattern q, regex=True being the
\* default.  Patterns here are made of ordinary characters and ".", which
\* matches any one character.
str_contains(text, q) ==
    \E off \in 0..(Len(text) - Len(q)) :
        \A k \in 1..Len(q) : q[k] = "." \/ q[k] = text[off + k]

\* The options of the two select boxes: "All", then the values in the table.
years(frame) == {YearAll} \cup {YearIs(frame[i].row.Year) : i \in 1..Len(frame)}
locations(frame) ==
    {All} \cup {frame[i].row.Location : i \in {j \in 1..Len(frame) : frame[j].row.Location # NaN}}

\* Lines 217-228: the three masks applied one after the other.
filter_rows(frame, year_filter, location_filter, code_query) ==
    LET by_year == IF ~year_filter.all
                   THEN SelectSeq(frame, LAMBDA l : l.row.Year = year_filter.year)
                   ELSE frame
        by_loc  == IF location_filter # All
                   THEN SelectSeq(by_year, LAMBDA l : l.row.Location = location_filter)
                   ELSE by_year
        q       == StrLower(code_query)
    IN  IF code_query # <<>>
        THEN SelectSeq(by_loc, LAMBDA l :
                \/ str_contains(StrLower(fillna(l.row.Code)), q)
                \/ str_contains(StrLower(fillna(l.row.Name)), q)
                \/ str_contains(StrLower(fillna(l.row.Location)), q))
        ELSE by_loc

-----------------------------------------------------------------------------
(* Calendar export *)

Digit == <<"0","1","2","3","4","5","6","7","8","9">>

RECURSIVE Pow10(_)
Pow10(n) == IF n = 0 THEN 1 ELSE 10 * Pow10(n - 1)

\* "%0wd": n in w digits, zero-padded
Padded(n, w) == [i \in 1..w |-> Digit[((n \div Pow10(w - i)) % 10) + 1]]

\* strftime("%Y%m%d")
strftime_Ymd(d) == Padded(d.y, 4) \o Padded(d.m, 2) \o Padded(d.d, 2)

\* date_to_ics
date_to_ics(d) == strftime_Ymd(d)

\* The proleptic Gregorian calendar of datetime: ordinals of dates.
is_leap(y) == y % 4 = 0 /\ (y % 100 # 0 \/ y % 400 = 0)
days_in_month(y, m) ==
    IF m = 2 THEN (IF is_leap(y) THEN 29 ELSE 28)
    ELSE IF m \in {4, 6, 9, 11} THEN 30 ELSE 31
days_before_year(y) ==
    (y - 1) * 365 + ((y - 1) \div 4) - ((y - 1) \div 100) + ((y - 1) \div 400)
RECURSIVE days_before_month(_, _)
days_before_month(y, m) ==
    IF m = 1 THEN 0 ELSE days_before_month(y, m - 1) + days_in_month(y, m - 1)
toordinal(d) == days_before_year(d.y) + days_before_month(d.y, d.m) + d.d
fromordinal(n) ==
    LET y == CHOOSE yy \in (n \div 366)..((n \div 365) + 1) :
                 days_before_year(yy) < n /\ n <= days_before_year(yy + 1)
        r == n - days_before_year(y)
        m == CHOOSE mm \in 1..12 :
                 days_before_month(y, mm) < r
                 /\ r <= days_before_month(y, mm) + days_in_month(y, mm)
    IN  Date(y, m, r - days_before_month(y, m))

\* The same adding to the day of the month only.
plus_days_within_month(d, n) == Date(d.y, d.m, d.d + n)

\* pd.to_datetime(d) + timedelta(days=n)
plus_days(d, n) == fromordinal(toordinal(d) + n)

Line(k, v) == [k |-> k, v |-> v]

\* The VEVENT block written for one row (the same lines in both exports).
\* DTSTAMP is the time of the export: a point of time, not modelled further.
vevent(row) ==
    <<Line("BEGIN", <<"VEVENT">>),
      Line("UID", PyStr(row.Code) \o <<"@project-tracker">>),
      Line("DTSTAMP", <<"utcnow">>),
      Line("DTSTART;VALUE=DATE", date_to_ics(row.Start)),
      Line("DTEND;VALUE=DATE", strftime_Ymd(plus_days(row.End, 1))),
      Line("SUMMARY", PyStr(row.Code) \o <<" - ">> \o PyStr(row.Name)),
      Line("LOCATION", PyStr(row.Location)),
      Line("DESCRIPTION", <<"Team: ">> \o PyStr(row.Team)),
      Line("END", <<"VEVENT">>)>>

vcalendar_head ==
    <<Line("BEGIN", <<"VCALENDAR">>), Line("VERSION", <<"2.0">>),
      Line("PRODID", <<"-//Project Tracker Pro//EN">>)>>
vcalendar_foot == <<Line("END", <<"VCALENDAR">>)>>

make_ics_for_row(row) == vcalendar_head \o vevent(row) \o vcalendar_foot

RECURSIVE vevents(_)
vevents(frame) ==
    IF frame = <<>> THEN <<>> ELSE vevent(Head(frame).row) \o vevents(Tail(frame))

make_ics_for_dataframe(frame) == vcalendar_head \o vevents(frame) \o vcalendar_foot

-----------------------------------------------------------------------------
(* Rendering runs over stored tables *)

\* Bound of the model: the largest number of rows of a rendered table.
ViewRows == 2

\* Submitted forms whose rows the rendered tables are made of.
ViewForm1 == Form1
ViewForm2 == [Year |-> 2024, Code |-> <<"b">>, Name |-> <<"A","A">>,
              Location |-> <<"K","L">>,
              Start |-> Date(2024, 2, 1), End |-> Date(2024, 2, 28),
              Team |-> <<"B","o">>]
ViewForm3 == [Year |-> 2023, Code |-> <<>>, Name |-> <<"n">>,
              Location |-> <<" ">>,
              Start |-> Date(2023, 12, 30), End |-> Date(2023, 12, 31),
              Team |-> <<>>]
ViewForm4 == [Year |-> 2025, Code |-> <<"A","x">>, Name |-> <<"c">>,
              Location |-> <<"N","Y","C">>,
              Start |-> Date(2025, 2, 27), End |-> Date(2025, 2, 28),
              Team |-> <<"a","l">>]
ViewForms == {ViewForm1, ViewForm2, ViewForm3, ViewForm4}

\* The files that adds of these forms leave behind.
ViewFiles ==
    {[exists |-> TRUE, rows |-> [i \in 1..Len(fs) |-> WriteRow(new_row(fs[i]))]] :
        fs \in UNION {[1..n -> ViewForms] : n \in 0..ViewRows}}

TypedQueries == {<<>>, <<"a","a">>, <<"A","A">>, <<".">>, <<"y",".">>}

InitView ==
    /\ session_state = [s \in Sessions |-> NoSession]
    /\ file \in ViewFiles
    /\ secrets = {}
    /\ last = NoLast
    /\ pc = [s \in Sessions |-> "idle"]
    /\ df = [s \in Sessions |-> <<>>]
    /\ missed = [s \in Sessions |-> 0]
    /\ finput = NoFilter
    /\ filtered = <<>>
    /\ ics = NoIcs

\* Lines 206-258 of a run: load_data, the filters, and with a non-empty view
\* the two calendar files, the single one for the row picked in the select box.
Render(year_filter, location_filter, code_query, sel) ==
    LET loaded == load_data(file)
        view   == filter_rows(loaded, year_filter, location_filter, code_query)
    IN  /\ year_filter \in years(loaded)
        /\ location_filter \in locations(loaded)
        /\ IF Len(view) > 0 THEN sel \in LabelSet(view) ELSE sel = 0
        /\ finput' = [applied |-> TRUE, year |-> year_filter,
                      location |-> location_filter, query |-> code_query]
        /\ filtered' = view
        /\ ics' = IF Len(view) > 0
                  THEN [made |-> TRUE, sel |-> sel,
                        single |-> make_ics_for_row(loc(loaded, sel)),
                        bulk |-> make_ics_for_dataframe(view)]
                  ELSE NoIcs
        /\ UNCHANGED <<session_state, file, secrets, last, pc, df, missed>>

NextView ==
    \E y \in {YearAll} \cup {YearIs(f.Year) : f \in ViewForms},
       l \in {All} \cup {Strip(f.Location) : f \in ViewForms},
       q \in TypedQueries, sel \in 0..ViewRows :
        Render(y, l, q, sel)

SpecView == InitView /\ [][NextView]_vars

-----------------------------------------------------------------------------
(* Claims about authorization, checked on whole runs (Spec) *)

\* The role a session holds, read off the session state itself.
RoleOf(s) == session_state[s].auth_role

\* The comma-separated pieces of a text: what lies between two neighbouring
\* cuts, a cut being a comma or an end of the text.
Cuts(text) == {0, Len(text) + 1} \cup {i \in 1..Len(text) : text[i] = ","}
Pieces(text) ==
    {SubSeq(text, a + 1, b - 1) :
        <<a, b>> \in {c \in Cuts(text) \X Cuts(text) :
                        c[1] < c[2] /\ ~\E m \in Cuts(text) : c[1] < m /\ m < c[2]}}

\* A text without its leading and trailing blanks.
Trimmed(text) ==
    LET inked == {i \in 1..Len(text) : text[i] # " "}
    IN  IF inked = {} THEN <<>>
        ELSE SubSeq(text, CHOOSE i \in inked : \A j \in inked : i <= j,
                          CHOOSE i \in inked : \A j \in inked : j <= i)

\* A Project Team cell that names nobody: missing, empty or blank.
EmptyTeam(cell) == cell = NaN \/ Trimmed(cell) = <<>>

\* The members a Project Team cell names.
TeamMembers(cell) ==
    IF EmptyTeam(cell) THEN {}
    ELSE {StrLower(Trimmed(piece)) : piece \in Pieces(cell)} \ {<<>>}

\* The row the last whole run selected, as the run loaded it.
SelectedRow == loc(last.before, last.row_idx)

\* C1: a run that pressed update or delete on a row goes through iff the
\* session is admin or its lower-cased username is one of the row's team
\* members; otherwise it ends in the warning.
C1_EditAllowedIffMember ==
    last.kind \in {"update", "delete", "edit_denied"} =>
        ((last.kind # "edit_denied") <=>
            (\/ RoleOf(last.s) = "admin"
             \/ StrLower(session_state[last.s].auth_user)
                    \in TeamMembers(SelectedRow.Team)))

\* C2: a row whose Project Team is missing, empty or blank is updated or
\* deleted by admin sessions only.
C2_EmptyTeamAdminOnly ==
    (last.kind \in {"update", "delete"} /\ EmptyTeam(SelectedRow.Team)) =>
        RoleOf(last.s) = "admin"

\* The label-th row of a frame, by its index label.
RowAt(frame, label) == frame[CHOOSE p \in 1..Len(frame) : frame[p].idx = label].row

\* C5: deleting index i of N rows leaves N-1 rows under the labels 0..N-2,
\* the rows before i where they were and the rows after i one label lower,
\* and that is the table the file then holds.
C5_DeleteRepacks ==
    last.kind = "delete" =>
        LET n == Len(last.before)
            i == last.row_idx
        IN  /\ Len(last.after) = n - 1
            /\ Labels(last.after) = [k \in 1..(n - 1) |-> k - 1]
            /\ \A k \in 0..(n - 1) :
                  /\ k < i => RowAt(last.after, k) = last.before[k + 1].row
                  /\ k > i => RowAt(last.after, k - 1) = last.before[k + 1].row
            /\ load_data(file) = last.after

C5_DeletedTheMiddleRow ==
    /\ last.kind = "delete"
    /\ last.row_idx = 1
    /\ Len(last.before) = 3
    /\ last.before[1].row # last.before[3].row

Configured == "GITHUB_TOKEN" \in secrets /\ "GITHUB_REPO" \in secrets

\* C6: without the token or without the repository name the commit after a
\* save makes no remote call, pushes nothing, returns normally, and the
\* file is as the save wrote it.
C6_NoRemoteCallWithoutConfig ==
    (last.saved /\ ~Configured) =>
        /\ last.sync.calls = <<>>
        /\ ~last.sync.pushed.done
        /\ ~last.sync.raised
        /\ last.completed
        /\ file.rows = [k \in 1..Len(last.after) |-> WriteRow(last.after[k].row)]

C6_SavedWithoutRepoName ==
    /\ last.kind = "delete"
    /\ last.saved
    /\ secrets = {"GITHUB_TOKEN"}
    /\ last.sync.shown = "info_skipped"

\* C7: an add, update or delete saves first and commits after; however the
\* commit ends, no exception leaves it, the run completes, the file still
\* holds what was saved, and what is pushed is the saved content.
C7_SyncFailureIsNotFatal ==
    last.kind \in {"add", "update", "delete"} =>
        /\ last.saved
        /\ ~last.sync.raised
        /\ last.completed
        /\ last.sync.shown \in {"info_skipped", "success", "error"}
        /\ file = save_data(last.after)
        /\ last.sync.pushed.done => last.sync.pushed.rows = file.rows

C7_CreateFallbackFailed ==
    /\ last.kind = "update"
    /\ last.sync.shown = "error"
    /\ last.sync.calls = <<"get_repo", "get_contents", "create_file">>
    /\ last.completed
    /\ last.before # last.after
    /\ file = save_data(last.after)

-----------------------------------------------------------------------------
(* Claims about sign-in (SpecAuth) *)

SameText(a, b) == Len(a) = Len(b) /\ \A k \in 1..Len(a) : a[k] = b[k]

\* C4: a sign-in attempt creates a session iff the typed username is an
\* account and the typed password is that account's, character for
\* character; the session then holds that username and that account's role;
\* a failed attempt changes nothing of the session state.
C4_SignInIffExactPassword ==
    [][last'.kind = "login" =>
         LET s  == last'.s
             u  == last'.username
             ok == \E name \in DOMAIN USERS :
                      name = u /\ SameText(USERS[name].password, last'.password)
         IN  /\ ok => session_state' =
                        [session_state EXCEPT ![s] =
                            [has_auth_user |-> TRUE, auth_user |-> u,
                             auth_role |-> USERS[u].role]]
             /\ ~ok => session_state' = session_state]_vars

C4_WrongCaseRejected ==
    /\ last.kind = "login"
    /\ last.username = Admin
    /\ last.password = <<"s","e","c">>
    /\ ~session_state[last.s].has_auth_user
    /\ \E t \in Sessions : /\ session_state[t].auth_user = Bo
                           /\ session_state[t].auth_role = "viewer"

-----------------------------------------------------------------------------
(* Claims about runs that interleave (SpecRace) *)

SavedBy(s) == pc[s] = "mutated" /\ pc'[s] = "saved"

\* C3: the table on file grows only in a step of an admin session, and a
\* non-admin run passes the add section without changing its table or the
\* file.
C3_OnlyAdminGrowsTheFile ==
    [][/\ Len(file'.rows) > Len(file.rows) =>
              \E s \in Sessions : SavedBy(s) /\ RoleOf(s) = "admin"
       /\ \A s \in Sessions :
              (RoleOf(s) # "admin" /\ pc[s] = "loaded" /\ pc'[s] # "loaded") =>
                  (pc'[s] = "edit" /\ df'[s] = df[s] /\ file' = file)]_vars

\* C3 as amended: a record is appended to a run's table only in an admin
\* session; a non-admin run passes the add section without changing its
\* table or the file, no step of it makes its table longer, and what it
\* saves is its table.
C3_NonAdminRunNeverAppends ==
    [][\A s \in Sessions :
          /\ (pc[s] # "idle" /\ Len(df'[s]) > Len(df[s])) => RoleOf(s) = "admin"
          /\ (RoleOf(s) # "admin" /\ pc[s] = "loaded" /\ pc'[s] # "loaded") =>
                 (pc'[s] = "edit" /\ df'[s] = df[s] /\ file' = file)
          /\ (RoleOf(s) # "admin" /\ SavedBy(s)) =>
                 Len(file'.rows) = Len(df[s])]_vars

C3_ViewerSavedOverADelete ==
    \E s \in Sessions :
        /\ RoleOf(s) = "viewer"
        /\ pc[s] = "saved"
        /\ missed[s] = 1
        /\ Len(df[s]) = 1
        /\ file = save_data(df[s])

\* C10: a run that holds a changed table can always save it, however many
\* saves of other sessions it has missed since it loaded, and the save
\* leaves on file exactly that run's table.
C10_LastSaveWins ==
    \A s \in Sessions :
        pc[s] = "mutated" => ENABLED (Save(s) /\ file' = save_data(df[s]))

C10_EarlierSaveLost ==
    \E s, t \in Sessions :
        /\ s # t
        /\ pc[s] = "saved" /\ pc[t] = "saved"
        /\ missed[t] = 0 /\ missed[s] = 1
        /\ file = save_data(df[s])
        /\ file # save_data(df[t])

-----------------------------------------------------------------------------
(* Claims about the filtered view and the calendar export (SpecView) *)

\* A missing value read as the empty text.
TextOf(x) == IF x = NaN THEN <<>> ELSE x

\* q occurs in text, character for character, case aside.
OccursIn(q, text) ==
    \E off \in 0..(Len(text) - Len(q)) :
        \A k \in 1..Len(q) : StrLower(q)[k] = StrLower(text)[off + k]

Satisfies(row, chosen) ==
    /\ chosen.year.all \/ row.Year = chosen.year.year
    /\ chosen.location = All \/ row.Location = chosen.location
    /\ \/ chosen.query = <<>>
       \/ OccursIn(chosen.query, TextOf(row.Code))
       \/ OccursIn(chosen.query, TextOf(row.Name))
       \/ OccursIn(chosen.query, TextOf(row.Location))

\* C8: the filtered view is the sub-sequence of the loaded rows, in their
\* order, that satisfy the chosen year, the chosen location and the query
\* taken as a literal text, case aside.
C8_FilteredIsTheMatchingSubsequence ==
    finput.applied =>
        filtered = SelectSeq(load_data(file), LAMBDA l : Satisfies(l.row, finput))

\* The calendar day after d.
LeapYear(y) == (y % 4 = 0 /\ y % 100 # 0) \/ y % 400 = 0
LastDay(y, m) ==
    IF m = 2 THEN (IF LeapYear(y) THEN 29 ELSE 28)
    ELSE IF m \in {4, 6, 9, 11} THEN 30 ELSE 31
NextDay(d) ==
    IF d.d < LastDay(d.y, d.m) THEN [y |-> d.y, m |-> d.m, d |-> d.d + 1]
    ELSE IF d.m < 12 THEN [y |-> d.y, m |-> d.m + 1, d |-> 1]
    ELSE [y |-> d.y + 1, m |-> 1, d |-> 1]

\* The number an eight-digit date stamp reads as, -1 if it is no such stamp.
RECURSIVE DigitsValue(_)
DigitsValue(text) ==
    IF text = <<>> THEN 0
    ELSE LET c == text[Len(text)]
             v == CHOOSE n \in 0..9 : Digit[n + 1] = c
         IN  10 * DigitsValue(SubSeq(text, 1, Len(text) - 1)) + v
IsStamp(text, d) ==
    /\ Len(text) = 8
    /\ \A k \in 1..8 : \E n \in 1..10 : Digit[n] = text[k]
    /\ DigitsValue(text) = d.y * 10000 + d.m * 100 + d.d

Values(lines, key) == SelectSeq(lines, LAMBDA l : l.k = key)
Count(lines, key, value) ==
    Cardinality({i \in 1..Len(lines) : lines[i].k = key /\ lines[i].v = value})

\* The events of a calendar file are those of the records, in their order.
EventsAre(lines, records) ==
    LET uids   == Values(lines, "UID")
        starts == Values(lines, "DTSTART;VALUE=DATE")
        ends   == Values(lines, "DTEND;VALUE=DATE")
    IN  /\ Count(lines, "BEGIN", <<"VCALENDAR">>) = 1
        /\ Count(lines, "END", <<"VCALENDAR">>) = 1
        /\ lines[1] = Line("BEGIN", <<"VCALENDAR">>)
        /\ lines[Len(lines)] = Line("END", <<"VCALENDAR">>)
        /\ Count(lines, "BEGIN", <<"VEVENT">>) = Len(records)
        /\ Count(lines, "END", <<"VEVENT">>) = Len(records)
        /\ Len(uids) = Len(records)
        /\ Len(starts) = Len(records)
        /\ Len(ends) = Len(records)
        /\ \A k \in 1..Len(records) :
              /\ IsStamp(starts[k].v, records[k].Start)
              /\ IsStamp(ends[k].v, NextDay(records[k].End))
              /\ records[k].Code # NaN =>
                    uids[k].v = records[k].Code \o <<"@project-tracker">>
              /\ \A j \in 1..Len(records) :
                    records[j].Code = records[k].Code => uids[j].v = uids[k].v

\* C9: the single export holds one event, that of the selected record, and
\* the bulk export one event per record of the view, in the view's order,
\* inside one VCALENDAR; an event starts on Project Start, ends on the day
\* after Project End, and its UID is made of the Project Code.
C9_EventsOfTheRecords ==
    ics.made =>
        /\ EventsAre(ics.single, <<RowAt(load_data(file), ics.sel)>>)
        /\ EventsAre(ics.bulk, Rows(filtered))

C9_EndOfYearAndOfFebruary ==
    /\ ics.made
    /\ Len(filtered) = 2
    /\ filtered[1].row.End = Date(2023, 12, 31)
    /\ filtered[2].row.End = Date(2024, 2, 28)
    /\ ics.sel = 1

=============================================================================
